---- MODULE Spec2Model ----
(***************************************************************************)
(* Model of src/index.tsx: the App component of the vertical image merger. *)
(*                                                                         *)
(* React state (useState) is held in the variables files, outputWidth,     *)
(* outputFormat, isLoading and error: they are the latest values, with all *)
(* queued updaters applied.  Every handler is a closure created by one     *)
(* execution of the component function, so it reads the values of the      *)
(* render that created it: these are kept in view.  Render is the          *)
(* re-execution of the component function: it refreshes view, creates the  *)
(* preview object URLs (line 17) and runs the effect of lines 18-22.       *)
(* Nothing in index.tsx makes a render happen between two handler calls:   *)
(* when React re-renders is React's scheduling, so Render is a step of its *)
(* own and a handler may run on the closure of an earlier render.          *)
(* handleMerge is the entry point of the merge: it may be called whenever  *)
(* a render exists, the disabled attribute of the button (line 228) being  *)
(* outside the handler.                                                    *)
(***************************************************************************)
EXTENDS Integers, Sequences, FiniteSets, TLC

VARIABLES
    files,          \* useState<File[]>, line 5 (latest state; a sequence of file names)
    outputWidth,    \* useState<number>, line 6
    outputFormat,   \* useState<'jpeg'|'png'>, line 7
    isLoading,      \* useState<boolean>, line 8
    error,          \* useState<string|null>, line 9
    filesDirty,     \* setFiles was called since the last render (new array identity)
    view,           \* the state captured by the closures of the last render
    dragItem,       \* useRef, line 13: << >> for null, << i >> for the 0-based index i
    dragOverItem,   \* useRef, line 14, likewise
    filePreviews,   \* line 17: the object URLs made by the last render
    effectPreviews, \* the filePreviews captured by the pending effect cleanup, lines 19-21
    objectURLs,     \* the browser's registry of object URLs not yet revoked
    urlSeq,         \* number of object URLs created so far (every URL is fresh)
    addCount,       \* number of addFiles calls so far (bounds the model only)
    runs            \* the invocations of handleMerge that passed validation, in start
                    \* order: the values of the closure (files, outputWidth,
                    \* outputFormat), the decode of each file (status, src), what was
                    \* drawn and emitted, and two fields of history that no code
                    \* reads: current, whether the closure's files were the latest
                    \* working set at the moment of the call, and arrived, the
                    \* images in the order in which their events fired

vars == << files, outputWidth, outputFormat, isLoading, error, filesDirty, view,
           dragItem, dragOverItem, filePreviews, effectPreviews, objectURLs,
           urlSeq, addCount, runs >>

----------------------------------------------------------------------------
(* Bounds of the model *)

MaxRuns == 2        \* handleMerge invocations that reach the try block
MaxEditRuns == 1    \* the same, in one behaviour of SpecEdit
MaxUrls == 4        \* object URLs created in one behaviour with merges
MaxSetUrls == 12    \* object URLs created in one behaviour of SpecSet
MaxAdds == 2        \* addFiles calls
MaxRunLen == 2      \* entries of a working set from which a merge is started
MaxLayoutRuns == 1  \* handleMerge invocations in one behaviour of SpecLayout

----------------------------------------------------------------------------
(* Files.  A File is identified by its name; the same file may be added    *)
(* more than once.                                                         *)

Null == "null"
Undefined == "undefined"

FileNames == {"a.png", "b.jpg", "c.gif", "bad.png", "notes.txt"}

\* File.type, as << type, subtype >>
FileType(f) ==
    CASE f = "a.png"     -> << "image", "png" >>
      [] f = "b.jpg"     -> << "image", "jpeg" >>
      [] f = "c.gif"     -> << "image", "gif" >>
      [] f = "bad.png"   -> << "image", "png" >>
      [] f = "notes.txt" -> << "text", "plain" >>

\* file.type.startsWith('image/'), line 28
IsImage(f) == FileType(f)[1] = "image"

\* whether the browser can decode the bytes of the file: img.onload or img.onerror
Decodable(f) == f \in {"a.png", "b.jpg", "c.gif"}

\* img.naturalWidth and img.naturalHeight of the decoded file, lines 108-109
NaturalWidth(f) ==
    CASE f = "a.png" -> 800
      [] f = "b.jpg" -> 400
      [] f = "c.gif" -> 1200
      [] OTHER -> 0          \* not decoded
NaturalHeight(f) ==
    CASE f = "a.png" -> 400
      [] f = "b.jpg" -> 400
      [] f = "c.gif" -> 600
      [] OTHER -> 0          \* not decoded

Range(s) == { s[i] : i \in DOMAIN s }

Rep(n, f) == [ i \in 1..n |-> f ]

\* the function f with its values worked out, for tables that are looked up
\* many times
Table(f) == f @@ << >>

\* the sequences without repetition over a set of files
Orders(S) ==
    UNION { { s \in [ 1..n -> S ] : \A i, j \in 1..n : i # j => s[i] # s[j] } :
            n \in 0..Cardinality(S) }

RECURSIVE SelectImages(_)
\* fileArray.filter(file => file.type.startsWith('image/')), line 28
SelectImages(s) ==
    IF s = << >> THEN << >>
    ELSE IF IsImage(Head(s)) THEN << Head(s) >> \o SelectImages(Tail(s))
         ELSE SelectImages(Tail(s))

\* the (constant) messages of setError
ErrCapacity == "max10"          \* line 31
ErrEmptySet == "selectOne"      \* line 79
ErrWidth == "width100to2000"    \* line 83
ErrProcessing == "processing"   \* line 140

\* the file names a message mentions: every message is a fixed text, none is built
\* from a file (lines 31, 79, 83, 140)
NamesIn(message) == {}

MAX_ENTRIES == 10   \* line 30
MIN_WIDTH == 100    \* line 82
MAX_WIDTH == 2000   \* line 82

Min(a, b) == IF a < b THEN a ELSE b

----------------------------------------------------------------------------
(* Object URLs *)

\* URL.createObjectURL called n times: n URLs never handed out before
NewUrls(n) == [ i \in 1..n |-> urlSeq + i ]

----------------------------------------------------------------------------
(* The working set: addFiles, handleRemoveFile, the drag handlers *)

\* the test of line 30, on the length the closure sees
CapacityExceeded(seen, imageFiles) == Len(seen) + Len(imageFiles) > MAX_ENTRIES

\* an updater that puts the new images first
PrependFiles(prev, imageFiles) == imageFiles \o prev

\* the updater of line 34: prev => [...prev, ...imageFiles]
AppendFiles(prev, imageFiles) == prev \o imageFiles

\* lines 25-35
addFiles(newFiles) ==
    LET imageFiles == SelectImages(newFiles) IN
    /\ IF CapacityExceeded(view.files, imageFiles)
       THEN /\ error' = ErrCapacity
            /\ UNCHANGED << files, filesDirty >>
       ELSE /\ error' = Null
            /\ files' = AppendFiles(files, imageFiles)
            /\ filesDirty' = TRUE
    /\ addCount' = addCount + 1
    /\ UNCHANGED << outputWidth, outputFormat, isLoading, view, dragItem,
                    dragOverItem, filePreviews, effectPreviews, objectURLs,
                    urlSeq, runs >>

\* the updater of line 64: prev => prev.filter((_, i) => i !== index), index 0-based
RemoveIndex(prev, index) ==
    SubSeq(prev, 1, Min(index, Len(prev))) \o SubSeq(prev, index + 2, Len(prev))

\* lines 63-65; the button of line 218 passes the index of the rendered entry
handleRemoveFile(index) ==
    /\ index \in 0..(Len(view.files) - 1)
    /\ files' = RemoveIndex(files, index)
    /\ filesDirty' = TRUE
    /\ UNCHANGED << addCount, outputWidth, outputFormat, isLoading, error, view, dragItem,
                    dragOverItem, filePreviews, effectPreviews, objectURLs,
                    urlSeq, runs >>

\* line 205
onDragStart(index) ==
    /\ index \in 0..(Len(view.files) - 1)
    /\ dragItem' = << index >>
    /\ UNCHANGED << addCount, files, outputWidth, outputFormat, isLoading, error, filesDirty,
                    view, dragOverItem, filePreviews, effectPreviews, objectURLs,
                    urlSeq, runs >>

\* line 206
onDragEnter(index) ==
    /\ index \in 0..(Len(view.files) - 1)
    /\ dragOverItem' = << index >>
    /\ UNCHANGED << addCount, files, outputWidth, outputFormat, isLoading, error, filesDirty,
                    view, dragItem, filePreviews, effectPreviews, objectURLs,
                    urlSeq, runs >>

\* a.splice(start, 1)[0]: the removed element, undefined when start is past the end
SpliceOut(a, start) == IF start < Len(a) THEN a[start + 1] ELSE Undefined

\* a after a.splice(start, 1)
SpliceRest(a, start) == RemoveIndex(a, start)

\* a after a.splice(start, 0, item): start is clamped to the length
SpliceIn(a, start, item) ==
    LET k == Min(start, Len(a)) IN
    SubSeq(a, 1, k) \o << item >> \o SubSeq(a, k + 1, Len(a))

\* a drag that exchanges the entries at from and to
SwapItems(a, from, to) ==
    [ i \in 1..Len(a) |-> IF i = from + 1 THEN a[to + 1]
                          ELSE IF i = to + 1 THEN a[from + 1] ELSE a[i] ]

\* lines 69-71, on the array the closure sees
MoveItem(a, from, to) == SpliceIn(SpliceRest(a, from), to, SpliceOut(a, from))

\* lines 67-75 (onDragEnd, line 207)
handleDragSort ==
    /\ view.files # << >>
    /\ IF dragItem = << >> \/ dragOverItem = << >>
       THEN UNCHANGED << files, filesDirty, dragItem, dragOverItem >>
       ELSE /\ files' = MoveItem(view.files, dragItem[1], dragOverItem[1])
            /\ filesDirty' = TRUE
            /\ dragItem' = << >>
            /\ dragOverItem' = << >>
    /\ UNCHANGED << addCount, outputWidth, outputFormat, isLoading, error, view,
                    filePreviews, effectPreviews, objectURLs, urlSeq, runs >>

----------------------------------------------------------------------------
(* Settings *)

RECURSIVE DigitsValue(_)
\* the value of a string of decimal digits (given as a sequence of digits)
DigitsValue(ds) ==
    IF ds = << >> THEN 0 ELSE 10 * DigitsValue(SubSeq(ds, 1, Len(ds) - 1)) + ds[Len(ds)]

\* parseInt(e.target.value, 10) || 0, line 160: the empty text gives NaN, hence 0
ParseWidth(text) == IF text = << >> THEN 0 ELSE DigitsValue(text)

\* line 160
setOutputWidth(text) ==
    /\ outputWidth' = ParseWidth(text)
    /\ UNCHANGED << addCount, files, outputFormat, isLoading, error, filesDirty, view, dragItem,
                    dragOverItem, filePreviews, effectPreviews, objectURLs, urlSeq,
                    runs >>

\* line 170
setOutputFormat(format) ==
    /\ format \in {"jpeg", "png"}
    /\ outputFormat' = format
    /\ UNCHANGED << addCount, files, outputWidth, isLoading, error, filesDirty, view, dragItem,
                    dragOverItem, filePreviews, effectPreviews, objectURLs, urlSeq,
                    runs >>

----------------------------------------------------------------------------
(* Render: the component function runs again, lines 4-239 *)

\* the state the component function reads
CurrentState ==
    [ files |-> files, outputWidth |-> outputWidth, outputFormat |-> outputFormat,
      isLoading |-> isLoading, error |-> error ]

\* React re-renders when a state setter stored a new value
NeedsRender == filesDirty \/ view # CurrentState

\* line 20: URL.revokeObjectURL for each URL of the captured filePreviews
RevokeAll(registry, urls) == registry \ Range(urls)

\* the URLs the commit of a render leaves registered: the cleanup of the previous
\* effect runs only when the dependency [files] changed (line 22)
CommitPreviews(registry, captured, created, changed) ==
    IF changed THEN RevokeAll(registry, captured) \cup Range(created)
    ELSE registry \cup Range(created)

Render ==
    /\ NeedsRender
    /\ Undefined \notin Range(files)      \* createObjectURL(undefined) throws, line 17
    /\ LET created == NewUrls(Len(files)) IN      \* line 17
       /\ filePreviews' = created
       /\ urlSeq' = urlSeq + Len(files)
       /\ objectURLs' = CommitPreviews(objectURLs, effectPreviews, created, filesDirty)
       /\ effectPreviews' = IF filesDirty THEN created ELSE effectPreviews
    /\ view' = CurrentState
    /\ filesDirty' = FALSE
    /\ UNCHANGED << addCount, files, outputWidth, outputFormat, isLoading, error,
                    dragItem, dragOverItem, runs >>

----------------------------------------------------------------------------
(* Numbers.  scaleRatio, height, totalHeight and currentY (lines 108-110,  *)
(* 120, 124) are JavaScript Numbers: binary floating point with 53         *)
(* significant bits, every operation rounded to the nearest, ties to even. *)
(* A non-negative Number is held as [int, frac]: its integer part and the  *)
(* bits after the binary point, first bit first, no 0 at the end;          *)
(* Infinity and NaN are held with the integer parts -1 and -2.             *)

Precision == 53     \* significant bits of a Number
QuotientBits == 80  \* bits after the point worked out for a quotient before rounding

Infinity == [ int |-> -1, frac |-> << >> ]
NaN == [ int |-> -2, frac |-> << >> ]

LimbBits == 15      \* digits worked on together, so that a product stays below 2^31

Zeros(n) == [ i \in 1..n |-> 0 ]

\* the number of binary digits of a natural number below 2^30
BitLength(n) == CHOOSE k \in 0..30 : n < 2^k /\ (k = 0 \/ n >= 2^(k - 1))

\* the n last binary digits of a natural number, first digit first
LastBits(v, n) == [ i \in 1..n |-> (v \div 2^(n - i)) % 2 ]

\* the binary digits of a natural number, first digit first (none for 0)
IntBits(n) == LastBits(n, BitLength(n))

RECURSIVE BitsInt(_)
\* the natural number with these binary digits
BitsInt(b) ==
    IF b = << >> THEN 0
    ELSE IF Len(b) = 1 THEN b[1]
    ELSE LET half == Len(b) \div 2 IN
         BitsInt(SubSeq(b, 1, half)) * 2^(Len(b) - half)
             + BitsInt(SubSeq(b, half + 1, Len(b)))

\* b without the zeros at its front, at its end
StripLeading(b) ==
    LET ones == { i \in DOMAIN b : b[i] = 1 } IN
    IF ones = {} THEN << >>
    ELSE SubSeq(b, CHOOSE i \in ones : \A j \in ones : i <= j, Len(b))
StripTrailing(b) ==
    LET ones == { i \in DOMAIN b : b[i] = 1 } IN
    IF ones = {} THEN << >>
    ELSE SubSeq(b, 1, CHOOSE i \in ones : \A j \in ones : i >= j)

\* the digits of the number one above
Increment(b) ==
    LET zeros == { i \in DOMAIN b : b[i] = 0 } IN
    IF zeros = {} THEN << 1 >> \o Zeros(Len(b))
    ELSE LET last == CHOOSE i \in zeros : \A j \in zeros : i >= j IN
         SubSeq(b, 1, last - 1) \o << 1 >> \o Zeros(Len(b) - last)

\* the Number whose digits are b, the last scale of them after the point
Number(b, scale) ==
    LET digits == IF scale < 0 THEN b \o Zeros(0 - scale)
                  ELSE IF Len(b) < scale THEN Zeros(scale - Len(b)) \o b ELSE b
        point == Len(digits) - (IF scale < 0 THEN 0 ELSE scale) IN
    [ int |-> BitsInt(SubSeq(digits, 1, point)),
      frac |-> StripTrailing(SubSeq(digits, point + 1, Len(digits))) ]

\* rounding to the nearest Number, ties to even: b are the digits worked out, the
\* last scale of them after the point; sticky says that the exact value has
\* digits other than 0 beyond them
RoundToNearest(b, scale, sticky) ==
    LET sig == StripLeading(b) IN
    IF Len(sig) <= Precision THEN Number(sig, scale)
    ELSE LET kept == SubSeq(sig, 1, Precision)
             rest == SubSeq(sig, Precision + 2, Len(sig))
             above == sticky \/ StripLeading(rest) # << >>
             up == sig[Precision + 1] = 1 /\ (above \/ kept[Precision] = 1) IN
         Number(IF up THEN Increment(kept) ELSE kept, scale - (Len(sig) - Precision))

\* the digits and the scale of a Number
Digits(x) == IntBits(x.int) \o x.frac
Scale(x) == Len(x.frac)

\* digits taken LimbBits at a time, each group as a number, and back
ToLimbs(b) ==
    LET n == (Len(b) + LimbBits - 1) \div LimbBits
        padded == Zeros(n * LimbBits - Len(b)) \o b IN
    [ j \in 1..n |-> BitsInt(SubSeq(padded, (j - 1) * LimbBits + 1, j * LimbBits)) ]
FromLimbs(l) ==
    [ i \in 1..(Len(l) * LimbBits) |->
        LastBits(l[((i - 1) \div LimbBits) + 1], LimbBits)[((i - 1) % LimbBits) + 1] ]

RECURSIVE PowerOfTwoMod(_, _)
\* 2^i modulo d, for d below 2^14
PowerOfTwoMod(i, d) ==
    IF i = 0 THEN 1 % d
    ELSE LET h == PowerOfTwoMod(i \div 2, d) IN
         (h * h * (IF i % 2 = 1 THEN 2 ELSE 1)) % d

\* long division: the remainder left after i digits after the point of a / d
QuotientRest(a, d, i) == ((a % d) * PowerOfTwoMod(i, d)) % d

\* the first n digits after the point of a / d
QuotientDigits(a, d, n) ==
    [ i \in 1..n |-> IF 2 * QuotientRest(a, d, i - 1) >= d THEN 1 ELSE 0 ]

\* a / d for integers a >= 0 and 0 <= d < 2^14, line 108
Divide(a, d) ==
    IF d = 0 THEN (IF a = 0 THEN NaN ELSE Infinity)
    ELSE RoundToNearest(IntBits(a \div d) \o QuotientDigits(a, d, QuotientBits),
                        QuotientBits, QuotientRest(a, d, QuotientBits) # 0)

RECURSIVE TimesLimbs(_, _, _)
\* k times the number with limbs l, carry added
TimesLimbs(l, k, carry) ==
    IF l = << >> THEN << carry >>
    ELSE LET t == l[Len(l)] * k + carry IN
         TimesLimbs(SubSeq(l, 1, Len(l) - 1), k, t \div 2^LimbBits)
             \o << t % 2^LimbBits >>

\* k * x for an integer 0 <= k < 2^15, line 109
Times(k, x) ==
    IF x = NaN \/ (x = Infinity /\ k = 0) THEN NaN
    ELSE IF x = Infinity THEN Infinity
    ELSE RoundToNearest(FromLimbs(TimesLimbs(ToLimbs(Digits(x)), k, 0)), Scale(x), FALSE)

\* the Number of an integer below 2^31
Whole(n) == [ int |-> n, frac |-> << >> ]

RECURSIVE PlusLimbs(_, _, _)
\* the sum of two numbers with as many limbs each
PlusLimbs(l, m, carry) ==
    IF l = << >> THEN << carry >>
    ELSE LET t == l[Len(l)] + m[Len(m)] + carry IN
         PlusLimbs(SubSeq(l, 1, Len(l) - 1), SubSeq(m, 1, Len(m) - 1), t \div 2^LimbBits)
             \o << t % 2^LimbBits >>

\* x + y, lines 110 and 124
Plus(x, y) ==
    IF x = NaN \/ y = NaN THEN NaN
    ELSE IF x = Infinity \/ y = Infinity THEN Infinity
    ELSE IF x.frac = << >> /\ y.frac = << >> THEN Whole(x.int + y.int)   \* exact
    ELSE
    LET scale == IF Scale(x) > Scale(y) THEN Scale(x) ELSE Scale(y)
        b == Digits(x) \o Zeros(scale - Scale(x))
        c == Digits(y) \o Zeros(scale - Scale(y))
        n == IF Len(b) > Len(c) THEN Len(b) ELSE Len(c) IN
    RoundToNearest(FromLimbs(PlusLimbs(ToLimbs(Zeros(n - Len(b)) \o b),
                                       ToLimbs(Zeros(n - Len(c)) \o c), 0)),
                   scale, FALSE)

\* the value a canvas dimension takes from a Number, lines 114-115: an unsigned
\* long, the fraction dropped, 0 for Infinity and NaN
ToUnsignedLong(x) == IF x = NaN \/ x = Infinity THEN 0 ELSE x.int

----------------------------------------------------------------------------
(* handleMerge, lines 77-144 *)

\* Validate without the upper limit of line 82
ValidateNoUpper(seen, width) ==
    IF Len(seen) = 0 THEN ErrEmptySet
    ELSE IF width < MIN_WIDTH THEN ErrWidth
    ELSE Null

\* lines 78-85: the message of the failed precondition, Null when both hold
Validate(seen, width) ==
    IF Len(seen) = 0 THEN ErrEmptySet
    ELSE IF width < MIN_WIDTH \/ width > MAX_WIDTH THEN ErrWidth
    ELSE Null

\* Promise.all that waits for every decode to load and never rejects
PromiseAllNeverRejects(status) ==
    IF \A i \in DOMAIN status : status[i] = "loaded" THEN "fulfilled" ELSE "pending"

\* Promise.all that is fulfilled once no decode is pending, failed or not
PromiseAllSettled(status) ==
    IF \A i \in DOMAIN status : status[i] # "pending" THEN "fulfilled" ELSE "pending"

\* Promise.all over the decodes, line 95: rejected as soon as one decode has
\* failed, fulfilled when all have loaded
PromiseAll(status) ==
    IF \E i \in DOMAIN status : status[i] = "failed" THEN "rejected"
    ELSE IF \A i \in DOMAIN status : status[i] = "loaded" THEN "fulfilled"
    ELSE "pending"

\* a body that reads the working set again after the await
RunSourcesLive(run) == files

\* a body that takes the images in the order in which they were decoded
RunSourcesArrived(run) == [ k \in DOMAIN run.arrived |-> run.files[run.arrived[k]] ]

\* the files the body of a run works on: the images of its own files.map, in
\* that order, lines 96, 107, 121
RunSources(run) == run.files

\* a body that reads the selected format again after the await
RunFormatLive(run) == outputFormat

\* the format the body of a run works with: the value of its closure, lines 128-133
RunFormat(run) == run.outputFormat

\* line 108: scaleRatio = outputWidth / img.naturalWidth
ScaleRatio(f, width) == Divide(width, NaturalWidth(f))

\* the widths at which layouts are worked out
LayoutWidths == { 780, 781, 113 }

\* line 109: height = img.naturalHeight * scaleRatio, for the images and the
\* widths of the model (worked out once)
ScaledHeights ==
    Table([ f \in { g \in FileNames : IsImage(g) /\ Decodable(g) } |->
        Table([ width \in LayoutWidths |->
            Times(NaturalHeight(f), ScaleRatio(f, width)) ]) ])

\* line 109: height = img.naturalHeight * scaleRatio
ScaledHeight(f, width) ==
    IF f \in DOMAIN ScaledHeights /\ width \in LayoutWidths THEN ScaledHeights[f][width]
    ELSE Times(NaturalHeight(f), ScaleRatio(f, width))

RECURSIVE RunningTotal(_, _, _)
\* totalHeight (line 110) and currentY (line 124) after k images: 0 with every
\* height added in turn
RunningTotal(sources, width, k) ==
    IF k = 0 THEN Whole(0)
    ELSE Plus(RunningTotal(sources, width, k - 1), ScaledHeight(sources[k], width))

\* the running totals of the orders of distinct images at the widths of the
\* model (worked out once)
RunningTotals ==
    Table([ sources \in Orders({ g \in FileNames : IsImage(g) /\ Decodable(g) }) |->
        Table([ width \in LayoutWidths |->
            Table([ k \in 0..Len(sources) |-> RunningTotal(sources, width, k) ]) ]) ])

\* totalHeight and currentY after k images
HeightAbove(sources, width, k) ==
    IF sources \in DOMAIN RunningTotals /\ width \in LayoutWidths
    THEN RunningTotals[sources][width][k]
    ELSE RunningTotal(sources, width, k)

\* the drawImage calls of line 122: ctx.drawImage(img, 0, currentY, outputWidth, height)
Layout(sources, width) ==
    [ i \in DOMAIN sources |->
        [ y |-> HeightAbove(sources, width, i - 1),
          height |-> ScaledHeight(sources[i], width) ] ]

\* a canvas as document.createElement makes it, line 91
DefaultCanvas == [ width |-> 300, height |-> 150 ]

\* lines 114-115: canvas.width = outputWidth; canvas.height = totalHeight
CanvasSize(sources, width) ==
    [ width |-> width,
      height |-> ToUnsignedLong(HeightAbove(sources, width, Len(sources))) ]

\* a step of the body after the await: what is done, and to which image (0: none)
Event(op, image) == [ op |-> op, image |-> image ]

\* lines 121-126: for each image in turn, drawImage and then revokeObjectURL
DrawEvents(n) ==
    [ j \in 1..(2 * n) |->
        IF j % 2 = 1 THEN Event("draw", (j + 1) \div 2) ELSE Event("revoke", j \div 2) ]

\* a body that paints the background over the images
BodyEventsFillLast(n, encodeOk) ==
    << Event("size", 0) >> \o DrawEvents(n) \o << Event("fill", 0), Event("encode", 0) >>
        \o (IF encodeOk THEN << Event("download", 0) >> ELSE << >>)

\* lines 114-136, in the order of the statements: the canvas is sized, filled
\* with white, the images are drawn and their URLs revoked, the canvas is
\* encoded and, unless that throws, the link is clicked
BodyEvents(n, encodeOk) ==
    << Event("size", 0), Event("fill", 0) >> \o DrawEvents(n) \o << Event("encode", 0) >>
        \o (IF encodeOk THEN << Event("download", 0) >> ELSE << >>)

\* lines 128-133: canvas.toDataURL(mimeType, quality) and the download link
Encode(format) ==
    [ mimeType |-> << "image/", format >>,
      quality  |-> IF format = "jpeg" THEN << 92, 100 >> ELSE << >>,
      download |-> << "merged-image.", format >> ]

NoOutput == << >>

\* lines 87-104: the synchronous part of handleMerge, up to the await
handleMerge(ctxOk) ==
    LET invalid == Validate(view.files, view.outputWidth) IN
    IF invalid # Null
    THEN /\ error' = invalid                                  \* lines 79, 83
         /\ UNCHANGED << addCount, files, outputWidth, outputFormat, isLoading, filesDirty,
                         view, dragItem, dragOverItem, filePreviews, effectPreviews,
                         objectURLs, urlSeq, runs >>
    ELSE IF ~ctxOk
    THEN /\ error' = ErrProcessing                            \* lines 93, 140
         /\ isLoading' = FALSE                                \* line 142
         /\ runs' = Append(runs,
                [ files |-> view.files, outputWidth |-> view.outputWidth,
                  outputFormat |-> view.outputFormat,
                  current |-> (files = view.files), status |-> << >>, src |-> << >>,
                  arrived |-> << >>,
                  drawn |-> << >>, layout |-> << >>, canvas |-> DefaultCanvas,
                  log |-> << >>,
                  pc |-> "done", result |-> "error", message |-> ErrProcessing,
                  output |-> NoOutput ])
         /\ UNCHANGED << addCount, files, outputWidth, outputFormat, filesDirty, view, dragItem,
                         dragOverItem, filePreviews, effectPreviews, objectURLs,
                         urlSeq >>
    ELSE LET src == NewUrls(Len(view.files)) IN                \* line 101
         /\ isLoading' = TRUE                                 \* line 87
         /\ error' = Null                                     \* line 88
         /\ objectURLs' = objectURLs \cup Range(src)
         /\ urlSeq' = urlSeq + Len(view.files)
         /\ runs' = Append(runs,
                [ files |-> view.files, outputWidth |-> view.outputWidth,
                  outputFormat |-> view.outputFormat,
                  current |-> (files = view.files),
                  status |-> [ i \in 1..Len(view.files) |-> "pending" ],
                  arrived |-> << >>,
                  src |-> src, drawn |-> << >>, layout |-> << >>, log |-> << >>,
                  canvas |-> DefaultCanvas,
                  pc |-> "await", result |-> "none", message |-> Null,
                  output |-> NoOutput ])
         /\ UNCHANGED << addCount, files, outputWidth, outputFormat, filesDirty, view, dragItem,
                         dragOverItem, filePreviews, effectPreviews >>

\* lines 106-136 and 141-143: the body after the await, run to its end
\* (encodeOk: whether canvas.toDataURL and the download go through)
Composite(run, status, encodeOk) ==
    LET sources == RunSources(run) IN
    [ run EXCEPT !.status = status,
                 !.canvas = CanvasSize(sources, run.outputWidth),
                 !.layout = Layout(sources, run.outputWidth),
                 !.drawn = sources,                           \* lines 121-126
                 !.log = BodyEvents(Len(sources), encodeOk),
                 !.pc = "done",
                 !.result = IF encodeOk THEN "success" ELSE "error",
                 !.message = IF encodeOk THEN Null ELSE ErrProcessing,  \* line 140
                 !.output = IF encodeOk THEN Encode(RunFormat(run)) ELSE NoOutput ]

\* lines 138-143: the catch and finally blocks after a rejected await
Abort(run, status) ==
    [ run EXCEPT !.status = status, !.pc = "done", !.result = "error",
                 !.message = ErrProcessing ]                  \* line 140

\* what the event of image i does to the run that awaits it, lines 95-143
Settle(r, i, status, encodeOk) ==
    LET run == [ runs[r] EXCEPT !.arrived = Append(@, i) ]
        outcome == PromiseAll(status) IN
    CASE outcome = "fulfilled" ->
            /\ runs' = [ runs EXCEPT ![r] = Composite(run, status, encodeOk) ]
            /\ objectURLs' = RevokeAll(objectURLs, run.src)   \* line 125
            /\ error' = IF encodeOk THEN error ELSE runs'[r].message
            /\ isLoading' = FALSE
      [] outcome = "rejected" ->
            /\ runs' = [ runs EXCEPT ![r] = Abort(run, status) ]
            /\ error' = runs'[r].message
            /\ isLoading' = FALSE
            /\ UNCHANGED objectURLs
      [] OTHER ->
            /\ runs' = [ runs EXCEPT ![r] = [ run EXCEPT !.status = status ] ]
            /\ UNCHANGED << objectURLs, error, isLoading >>

\* img.onload, line 99 (resolve has no effect once Promise.all has settled)
imgOnLoad(r, i, encodeOk) ==
    /\ r \in DOMAIN runs
    /\ runs[r].pc = "await"
    /\ i \in DOMAIN runs[r].status
    /\ runs[r].status[i] = "pending"
    /\ Decodable(runs[r].files[i])
    /\ Settle(r, i, [ runs[r].status EXCEPT ![i] = "loaded" ], encodeOk)
    /\ UNCHANGED << addCount, files, outputWidth, outputFormat, filesDirty, view, dragItem,
                    dragOverItem, filePreviews, effectPreviews, urlSeq >>

\* img.onerror, line 100 (reject has no effect once Promise.all has settled)
imgOnError(r, i) ==
    /\ r \in DOMAIN runs
    /\ runs[r].pc = "await"
    /\ i \in DOMAIN runs[r].status
    /\ runs[r].status[i] = "pending"
    /\ ~Decodable(runs[r].files[i])
    /\ Settle(r, i, [ runs[r].status EXCEPT ![i] = "failed" ], TRUE)
    /\ UNCHANGED << addCount, files, outputWidth, outputFormat, filesDirty, view, dragItem,
                    dragOverItem, filePreviews, effectPreviews, urlSeq >>

----------------------------------------------------------------------------
(* The system *)

\* the batches handed to addFiles (input change, line 39; drop, line 59)
SmallBatches == { << "a.png" >>, << "b.jpg", "notes.txt" >>, << "bad.png" >> }

\* the batches whose images all decode
GoodBatches == { << "a.png" >>, << "b.jpg", "notes.txt" >> }

Batches ==
    SmallBatches \cup { Rep(MAX_ENTRIES, "a.png"), Rep(MAX_ENTRIES + 1, "a.png") }

\* the texts typed into the width field
WidthTexts == { << >>, << 7, 8, 0 >>, << 2, 0, 0, 1 >> }

Init ==
    /\ files = << >>
    /\ outputWidth = 780
    /\ outputFormat = "jpeg"
    /\ isLoading = FALSE
    /\ error = Null
    /\ filesDirty = FALSE
    /\ view = [ files |-> << >>, outputWidth |-> 780, outputFormat |-> "jpeg",
                isLoading |-> FALSE, error |-> Null ]
    /\ dragItem = << >>
    /\ dragOverItem = << >>
    /\ filePreviews = << >>
    /\ effectPreviews = << >>
    /\ objectURLs = {}
    /\ urlSeq = 0
    /\ addCount = 0
    /\ runs = << >>

\* the component after its first render of a working set
Rendered(set, width, format) ==
    /\ files = set
    /\ outputWidth = width
    /\ outputFormat = format
    /\ isLoading = FALSE
    /\ error = Null
    /\ filesDirty = FALSE
    /\ view = [ files |-> set, outputWidth |-> width, outputFormat |-> format,
                isLoading |-> FALSE, error |-> Null ]
    /\ dragItem = << >>
    /\ dragOverItem = << >>
    /\ filePreviews = [ i \in 1..Len(set) |-> i ]
    /\ effectPreviews = [ i \in 1..Len(set) |-> i ]
    /\ objectURLs = 1..Len(set)
    /\ urlSeq = Len(set)
    /\ addCount = IF set = << >> THEN 0 ELSE 1
    /\ runs = << >>

\* a working set of distinct images, in any order, has been added and rendered
InitReorder ==
    \E set \in Orders({ f \in FileNames : IsImage(f) }) : Rendered(set, 780, "jpeg")

\* a working set of distinct images that decode, in any order, has been added
\* and rendered, and a width has been entered
InitLayout ==
    \E set \in Orders({ f \in FileNames : IsImage(f) /\ Decodable(f) }) :
        \E width \in LayoutWidths : Rendered(set, width, "jpeg")

DoAdd == \E b \in SmallBatches : addCount < MaxAdds /\ addFiles(b)
DoAddGood == \E b \in GoodBatches : addCount < MaxAdds /\ addFiles(b)
DoAddAny == \E b \in Batches : addCount < MaxAdds /\ addFiles(b)
DoRemove == \E i \in 0..(Len(view.files) - 1) : handleRemoveFile(i)
DoDragStart == \E i \in 0..(Len(view.files) - 1) : onDragStart(i)
DoDragEnter == \E i \in 0..(Len(view.files) - 1) : onDragEnter(i)
DoDragEnd == handleDragSort
DoSetWidth == \E t \in WidthTexts : setOutputWidth(t)
DoSetFormat == \E f \in {"jpeg", "png"} : setOutputFormat(f)
DoRender == urlSeq + Len(files) <= MaxUrls /\ Render
DoMerge ==
    \E ctxOk \in BOOLEAN :
        /\ Len(runs) < MaxRuns
        /\ Len(view.files) <= MaxRunLen
        /\ urlSeq + Len(view.files) <= MaxUrls
        /\ handleMerge(ctxOk)
DoMergeEdit ==
    \E ctxOk \in BOOLEAN :
        /\ Len(runs) < MaxEditRuns
        /\ Len(view.files) <= MaxRunLen
        /\ urlSeq + Len(view.files) <= MaxUrls
        /\ handleMerge(ctxOk)
DoLoad == \E r \in 1..MaxRuns, i \in 1..MaxRunLen, ok \in BOOLEAN : imgOnLoad(r, i, ok)
DoError == \E r \in 1..MaxRuns, i \in 1..MaxRunLen : imgOnError(r, i)

DoRenderSet == urlSeq + Len(files) <= MaxSetUrls /\ Render
DoMergeLayout ==
    \E ctxOk \in BOOLEAN :
        /\ Len(runs) < MaxLayoutRuns
        /\ urlSeq + Len(view.files) <= MaxSetUrls
        /\ handleMerge(ctxOk)
DoLoadAny ==
    \E r \in DOMAIN runs : \E i \in DOMAIN runs[r].status : \E ok \in BOOLEAN :
        imgOnLoad(r, i, ok)

\* merge runs while entries are added and removed
Next ==
    \/ DoAdd \/ DoRemove \/ DoRender \/ DoMerge \/ DoLoad \/ DoError

Spec == Init /\ [][Next]_vars

\* the working set alone, with batches up to and beyond the capacity
NextSet ==
    \/ DoAddAny \/ DoRemove \/ DoDragStart \/ DoDragEnter \/ DoDragEnd \/ DoRenderSet

SpecSet == Init /\ [][NextSet]_vars

\* a merge run of images that decode, while the working set is edited in every way
NextEdit ==
    \/ DoAddGood \/ DoRemove \/ DoDragStart \/ DoDragEnter \/ DoDragEnd \/ DoRender
    \/ DoMergeEdit \/ DoLoad

SpecEdit == Init /\ [][NextEdit]_vars

\* merge runs while the width is edited
NextWidth ==
    \/ DoAdd \/ DoRender \/ DoSetWidth \/ DoMerge \/ DoLoad \/ DoError

SpecWidth == Init /\ [][NextWidth]_vars

\* merge runs alone; every image the browser was asked to decode eventually fires
\* load or error
NextRun ==
    \/ DoAdd \/ DoRender \/ DoMerge \/ DoLoad \/ DoError

SpecRun == Init /\ [][NextRun]_vars /\ WF_vars(DoLoad) /\ WF_vars(DoError)

\* the drag handlers alone, on a working set of distinct images
NextReorder ==
    \/ DoDragStart \/ DoDragEnter \/ DoDragEnd \/ DoRenderSet

SpecReorder == InitReorder /\ [][NextReorder]_vars

\* a merge run of images that decode, while the format is edited
NextFormat ==
    \/ DoAddGood \/ DoRender \/ DoSetFormat \/ DoMergeEdit \/ DoLoad

SpecFormat == Init /\ [][NextFormat]_vars

\* merge runs of working sets of up to three images that decode, at several widths
NextLayout ==
    \/ DoMergeLayout \/ DoLoadAny \/ DoRenderSet

SpecLayout == InitLayout /\ [][NextLayout]_vars

----------------------------------------------------------------------------
(* Properties *)

Awaiting == { r \in DOMAIN runs : runs[r].pc = "await" }

FailedAt(run) == { i \in DOMAIN run.status : run.status[i] = "failed" }

\* C1: in every reachable state the working set holds between 0 and 10 entries
C1_WorkingSetBounded == Len(files) >= 0 /\ Len(files) <= MAX_ENTRIES

\* C2: an addFiles call whose images, added to the current entry count, would
\* exceed 10 leaves the working set as it was and reports the capacity error
C2_BatchRejectedAtomically ==
    [][ \A b \in Batches :
            (addFiles(b) /\ Len(files) + Len(SelectImages(b)) > MAX_ENTRIES)
                => (files' = files /\ error' = ErrCapacity) ]_vars

\* C3: at most one merge run is in flight (awaiting its decodes) at any time
C3_OneRunAtATime == Cardinality(Awaiting) <= 1

\* C4: every run that is awaiting its decodes eventually is done, and isLoading,
\* once set, is eventually reset; the step that ends a run, at whatever stage it
\* fails or succeeds, resets isLoading; and a merge request that passes
\* validation is accepted whatever the previous result was
C4_RunReturnsToIdle ==
    /\ \A r \in 1..MaxRuns :
          (r \in DOMAIN runs /\ runs[r].pc = "await")
              ~> (r \in DOMAIN runs /\ runs[r].pc = "done")
    /\ isLoading ~> ~isLoading
    /\ [][ \A r \in DOMAIN runs :
              (runs[r].pc = "await" /\ runs'[r].pc = "done")
                  => (~isLoading' /\ runs'[r].result \in {"success", "error"}) ]_vars
    /\ [][ (handleMerge(FALSE) /\ Validate(view.files, view.outputWidth) = Null)
              => (~isLoading' /\ error' = ErrProcessing) ]_vars
    /\ [][ (handleMerge(TRUE) /\ Validate(view.files, view.outputWidth) = Null)
              => (isLoading' /\ Len(runs') = Len(runs) + 1
                  /\ runs'[Len(runs')].pc = "await") ]_vars

\* a run ended with an error and a later merge request is in flight
C4_Witness ==
    /\ Len(runs) = 2
    /\ runs[1].pc = "done" /\ runs[1].result = "error" /\ FailedAt(runs[1]) # {}
    /\ runs[2].pc = "await"
    /\ isLoading

\* C5: the files of a run, their order and its decode URLs never change once the
\* run has started, whatever is done to the working set; what a run draws is
\* exactly these files in that order, and a run that succeeds has drawn them
C5_SnapshotImmutable ==
    /\ [](\A r \in DOMAIN runs :
            /\ Len(runs[r].status) \in {0, Len(runs[r].files)}
            /\ runs[r].drawn \in {<< >>, runs[r].files}
            /\ (runs[r].result = "success" => runs[r].drawn = runs[r].files))
    /\ [][ \A r \in DOMAIN runs :
              /\ runs'[r].files = runs[r].files
              /\ runs'[r].src = runs[r].src
              /\ runs'[r].outputWidth = runs[r].outputWidth ]_vars

\* a run of two files is in flight with one of them decoded, and the working
\* set, equal to the files of the run when it started, has been reordered since
C5_Witness ==
    /\ Len(runs) = 1
    /\ runs[1].pc = "await"
    /\ runs[1].files = << "a.png", "b.jpg" >>
    /\ runs[1].current
    /\ runs[1].status = << "pending", "loaded" >>
    /\ files = << "b.jpg", "a.png" >>

\* C6: once a run is done, every object URL it created for decoding is revoked
C6_DecodeUrlsReleased ==
    \A r \in DOMAIN runs :
        runs[r].pc = "done" => Range(runs[r].src) \cap objectURLs = {}

\* C7: every preview URL that is registered is the one shown for a current entry
C7_PreviewUrlsRevoked ==
    \A u \in objectURLs :
        \/ u \in Range(filePreviews)
        \/ \E r \in DOMAIN runs : u \in Range(runs[r].src)

\* C8: a run with a failed decode is done with an error, has drawn and emitted
\* nothing, and the step that fails it leaves the working set as it was
C8_DecodeAllOrNothing ==
    /\ [](\A r \in DOMAIN runs :
            FailedAt(runs[r]) # {} =>
                /\ runs[r].pc = "done" /\ runs[r].result = "error"
                /\ runs[r].drawn = << >> /\ runs[r].output = NoOutput)
    /\ [][ (\E r \in 1..MaxRuns, i \in 1..MaxRunLen : imgOnError(r, i))
              => (files' = files /\ error' = ErrProcessing /\ ~isLoading') ]_vars

\* of two sources one failed to decode after the other had loaded
C8_Witness ==
    \E r \in DOMAIN runs :
        /\ runs[r].files = << "a.png", "bad.png" >>
        /\ runs[r].status = << "loaded", "failed" >>
        /\ runs[r].result = "error"
        /\ files = runs[r].files

\* C9: the error of a run aborted by a failed decode names the source that
\* failed and no other
C9_ErrorNamesOffender ==
    \A r \in DOMAIN runs :
        FailedAt(runs[r]) # {} =>
            NamesIn(runs[r].message) = { runs[r].files[i] : i \in FailedAt(runs[r]) }

\* C10: handleMerge on an empty set reports EmptySet, on a non-empty set with a
\* width outside 100..2000 the distinct WidthOutOfRange, and in both cases
\* starts no run, leaves isLoading alone and creates no object URL
C10_ValidationKeepsIdle ==
    [][ \A c \in BOOLEAN :
          (handleMerge(c) /\ (Len(view.files) = 0 \/ view.outputWidth < 100
                              \/ view.outputWidth > 2000))
            => /\ error' = IF Len(view.files) = 0 THEN ErrEmptySet ELSE ErrWidth
               /\ ErrEmptySet # ErrWidth
               /\ isLoading' = isLoading
               /\ runs' = runs
               /\ objectURLs' = objectURLs
               /\ urlSeq' = urlSeq ]_vars

\* a merge of a non-empty set was refused for a width above 2000; nothing runs
C10_Witness ==
    /\ error = ErrWidth
    /\ view.files # << >>
    /\ view.outputWidth > 2000
    /\ runs = << >>
    /\ ~isLoading


\* the number of entries of s equal to x
Occurrences(s, x) == Cardinality({ i \in DOMAIN s : s[i] = x })

\* C11: a drag from index from to index to, both within the working set the
\* handler works on, gives the sequence in which the dragged entry stands at
\* index to and the other entries stand as before, in the same order: the same
\* entries, as many as before; a drag from 0 to 2 turns [A, B, C] into [B, C, A]
C11_ReorderMovesOne ==
    [][ (/\ handleDragSort
         /\ dragItem # << >> /\ dragOverItem # << >>
         /\ dragItem[1] < Len(view.files) /\ dragOverItem[1] < Len(view.files))
        => LET s == view.files
               from == dragItem[1]
               to == dragOverItem[1] IN
           /\ Len(files') = Len(s)
           /\ files'[to + 1] = s[from + 1]
           /\ RemoveIndex(files', to) = RemoveIndex(s, from)
           /\ \A f \in FileNames : Occurrences(files', f) = Occurrences(s, f)
           /\ (s = << "a.png", "b.jpg", "bad.png" >> /\ from = 0 /\ to = 2)
                 => files' = << "b.jpg", "bad.png", "a.png" >> ]_vars

\* [A, B, C] was rendered and the drag from 0 to 2 has been applied to it
C11_Witness ==
    /\ view.files = << "a.png", "b.jpg", "bad.png" >>
    /\ files = << "b.jpg", "bad.png", "a.png" >>
    /\ filesDirty
    /\ dragItem = << >> /\ dragOverItem = << >>


\* C12: removing the entry shown at an index takes exactly that entry out of the
\* working set if it is there, and nothing if it is not; every other entry
\* stays, in the same order, also when the working set is no longer the one shown
C12_RemoveByIdentity ==
    [][ \A index \in 0..MAX_ENTRIES :
          handleRemoveFile(index) =>
            LET target == view.files[index + 1]
                Other(f) == f # target IN
            /\ SelectSeq(files', Other) = SelectSeq(files, Other)
            /\ Occurrences(files', target) =
                  IF Occurrences(files, target) = 0 THEN 0
                  ELSE Occurrences(files, target) - 1 ]_vars


\* C13: every entry of the working set is a file whose type starts with image/;
\* an addFiles call that is not refused for capacity appends the images of its
\* batch, leaves the other files of the batch out and reports no error
C13_EntriesAreImages ==
    /\ [](\A i \in DOMAIN files : files[i] # Undefined /\ IsImage(files[i]))
    /\ [][ \A b \in Batches :
              (addFiles(b) /\ ~CapacityExceeded(view.files, SelectImages(b)))
                => /\ files' = files \o SelectImages(b)
                   /\ \A i \in DOMAIN SelectImages(b) : IsImage(SelectImages(b)[i])
                   /\ error' = Null ]_vars

\* the runs whose body has reached the layout and the draw loop, lines 106-126
LaidOut == { r \in DOMAIN runs : runs[r].layout # << >> }

\* the Number x is exactly the quotient a / d
IsQuotient(x, a, d) ==
    StripLeading(FromLimbs(TimesLimbs(ToLimbs(Digits(x)), d, 0)))
        = IntBits(a) \o Zeros(Scale(x))

\* each image of a run is drawn at the offset where the one before it ends, the
\* first at 0, over the whole width of the canvas
Stacked(run) ==
    /\ run.canvas.width = run.outputWidth
    /\ run.layout[1].y = Whole(0)
    /\ \A i \in 1..(Len(run.layout) - 1) :
          run.layout[i + 1].y = Plus(run.layout[i].y, run.layout[i].height)

\* C14: the canvas is as wide as the width asked for, the first image
\* is at offset 0, each next one at the offset of the one before plus its scaled
\* height h * width / w, the canvas is as high as all scaled heights together;
\* 800x400, 400x400 and 1200x600 at width 780 are each 390 high on a canvas of
\* 780 by 1170
C14_LayoutAsStated ==
    \A r \in LaidOut :
        LET run == runs[r]
            n == Len(run.layout) IN
        /\ Stacked(run)
        /\ \A i \in 1..n :
              IsQuotient(run.layout[i].height,
                         NaturalHeight(run.files[i]) * run.outputWidth,
                         NaturalWidth(run.files[i]))
        /\ Whole(run.canvas.height) = Plus(run.layout[n].y, run.layout[n].height)
        /\ (run.files = << "a.png", "b.jpg", "c.gif" >> /\ run.outputWidth = 780)
              => /\ \A i \in 1..n : run.layout[i].height = Whole(390)
                 /\ run.canvas = [ width |-> 780, height |-> 1170 ]

\* C15: for every run and every drag within its files, the layout of the files
\* so reordered, at the same width, gives each image the scale and the scaled
\* height it has in the run and a canvas of the same width and height
C15_ReorderKeepsScale ==
    \A r \in LaidOut :
        LET run == runs[r]
            last == Len(run.files) - 1 IN
        \A from \in 0..last : \A to \in 0..last :
            LET moved == MoveItem(run.files, from, to)
                again == Layout(moved, run.outputWidth) IN
            /\ \A k \in DOMAIN moved : \A i \in DOMAIN run.files :
                  moved[k] = run.files[i] =>
                      /\ ScaleRatio(moved[k], run.outputWidth)
                            = ScaleRatio(run.files[i], run.outputWidth)
                      /\ again[k].height = run.layout[i].height
            /\ CanvasSize(moved, run.outputWidth) = run.canvas

\* C16: in whatever order the decodes of a run complete, the images are laid
\* out and drawn in the order of the files of the run, and what the run emits
\* is given by its files, width and format alone
C16_CompletionOrderIrrelevant ==
    \A r \in LaidOut :
        /\ Len(runs[r].arrived) = Len(runs[r].files)
        /\ runs[r].drawn = runs[r].files
        /\ runs[r].layout = Layout(runs[r].files, runs[r].outputWidth)
        /\ runs[r].canvas = CanvasSize(runs[r].files, runs[r].outputWidth)
        /\ runs[r].output \in { NoOutput, Encode(runs[r].outputFormat) }
        /\ runs[r].result = "success" => runs[r].output = Encode(runs[r].outputFormat)

\* three images were decoded last first, and the run succeeded
C16_Witness ==
    \E r \in LaidOut :
        /\ runs[r].files = << "a.png", "b.jpg", "c.gif" >>
        /\ runs[r].arrived = << 3, 2, 1 >>
        /\ runs[r].result = "success"

\* C17: a run that succeeds emits what its format gives: for jpeg the type
\* image/jpeg, the file name merged-image.jpeg and the quality 0.92, for png the
\* type image/png, the file name merged-image.png and no quality; the format of
\* a run is the one selected in the render from which handleMerge was called,
\* and stays that to the end of the run
C17_FormatDecidesOutput ==
    /\ [](\A r \in DOMAIN runs :
            runs[r].result = "success" =>
               runs[r].output =
                  IF runs[r].outputFormat = "jpeg"
                  THEN [ mimeType |-> << "image/", "jpeg" >>, quality |-> << 92, 100 >>,
                         download |-> << "merged-image.", "jpeg" >> ]
                  ELSE [ mimeType |-> << "image/", "png" >>, quality |-> << >>,
                         download |-> << "merged-image.", "png" >> ])
    /\ [][ \A c \in BOOLEAN :
              (handleMerge(c) /\ Len(runs') = Len(runs) + 1)
                 => runs'[Len(runs')].outputFormat = view.outputFormat ]_vars
    /\ [][ \A r \in DOMAIN runs : runs'[r].outputFormat = runs[r].outputFormat ]_vars

\* a run started with jpeg selected has succeeded after png was selected and
\* rendered while it was loading
C17_Witness ==
    /\ Len(runs) = 1
    /\ runs[1].outputFormat = "jpeg"
    /\ runs[1].result = "success"
    /\ runs[1].output.mimeType = << "image/", "jpeg" >>
    /\ view.isLoading /\ view.outputFormat = "png"
    /\ outputFormat = "png"

Places(run, op, image) ==
    { p \in DOMAIN run.log : run.log[p] = Event(op, image) }

\* C19: in a run whose body got past the await every decode had completed before
\* the canvas was sized; the canvas is sized first, then filled once, before any
\* draw; each image is drawn once, in the order of the files, at an offset not
\* above the one before; the URL of an image is revoked after this image is
\* drawn; the canvas is encoded once, after the last draw
C19_BodyOrder ==
    \A r \in LaidOut :
        LET run == runs[r]
            n == Len(run.files)
            one(op, image) == CHOOSE p \in Places(run, op, image) : TRUE IN
        /\ \A i \in 1..n : run.status[i] = "loaded"
        /\ Places(run, "size", 0) = { 1 }
        /\ Cardinality(Places(run, "fill", 0)) = 1
        /\ Cardinality(Places(run, "encode", 0)) = 1
        /\ \A i \in 1..n :
              /\ Cardinality(Places(run, "draw", i)) = 1
              /\ Cardinality(Places(run, "revoke", i)) = 1
              /\ one("size", 0) < one("fill", 0)
              /\ one("fill", 0) < one("draw", i)
              /\ one("draw", i) < one("revoke", i)
              /\ one("draw", i) < one("encode", 0)
        /\ \A i \in 1..(n - 1) :
              /\ one("draw", i) < one("draw", i + 1)
              /\ run.layout[i].y.int <= run.layout[i + 1].y.int
        /\ \A p \in DOMAIN run.log :
              run.log[p].op = "download" => one("encode", 0) < p

\* a run of three images has drawn them and emitted its output
C19_Witness ==
    \E r \in LaidOut :
        /\ Len(runs[r].files) = 3
        /\ runs[r].result = "success"
        /\ Places(runs[r], "draw", 3) # {}
        /\ Places(runs[r], "download", 0) # {}

\* C20: a drag that is applied leaves in the working set exactly the entries
\* that were in it, each as often as before, whatever was added to it or removed
\* from it since the dragged indices were taken
C20_ReorderKeepsEntries ==
    [][ (handleDragSort /\ dragItem # << >> /\ dragOverItem # << >>)
          => /\ Len(files') = Len(files)
             /\ \A f \in FileNames \cup { Undefined } :
                   Occurrences(files', f) = Occurrences(files, f) ]_vars

====
